---- MODULE Spec2Model ----
(***************************************************************************)
(* A model of pyprofiler's timing recorder (src/profiler.py): the Profiler *)
(* class with its scope stack, record list and enabled flag, the time()    *)
(* context manager, track(), checkpoint() and get_stats().                 *)
(*                                                                         *)
(* Strings are sequences of one-character strings, so that str.join,       *)
(* str.split and the substring test `in` are computed, not assumed.        *)
(* Timestamps are integer clock ticks; the clock never runs backwards.     *)
(* Console output (print) is not part of the modelled state.               *)
(***************************************************************************)
EXTENDS Integers, Sequences, FiniteSets, TLC

VARIABLES
    enabled,    \* Profiler.enabled
    records,    \* Profiler.records: sequence of TimingRecord
    stack,      \* Profiler._stack: sequence of scope names
    now,        \* the value time.time() returns when read
    frames,     \* per execution context: the suspended time() generators, outermost first
    pending,    \* per execution context: the exception in flight, or NoExc
    last,       \* the most recent call: what it was given and what its caller observed
    origin,     \* history: for each record, the call that appended it
    entered,    \* history: scopes entered so far, by the branch time() took
    global_profiler,  \* _global_profiler: 0 for None, else the number of the instance
                      \* that enabled, records, stack (and origin) belong to
    retired,    \* the instances enable_profiling() has replaced, by their number
    globally_off      \* history: disable_profiling() was called, enable_profiling() not since

vars == <<enabled, records, stack, now, frames, pending, last, origin, entered,
          global_profiler, retired, globally_off>>

\* the module-level state of profiler.py and its history
module_state == <<global_profiler, retired, globally_off>>

----------------------------------------------------------------------------
(* Bounds of the model *)

MaxClock == 1          \* the clock runs from 0 to MaxClock
MaxScopes == 3         \* scopes entered in one behaviour
MaxCheckpoints == 1    \* checkpoint records in one behaviour
MaxRecs == 3           \* length of a record list drawn for the statistics functions
MaxDur == 3            \* largest duration drawn for the statistics functions
TicksPerMilli == 3     \* resolution of the clock: ticks of the model in a millisecond
MaxInstances == 2      \* recorders that become the global recorder in one behaviour

----------------------------------------------------------------------------
(* String literals of the source *)

\* a prefix that does not hold the marker
CheckpointPrefixShort == <<"C", "H", "E", "C", "K", ":", " ">>

SEP == <<" ", ">", " ">>
MARKER == <<"C", "H", "E", "C", "K", "P", "O", "I", "N", "T">>
CheckpointPrefix == <<"C", "H", "E", "C", "K", "P", "O", "I", "N", "T", ":", " ">>

NameA == <<"A">>
NameB == <<"B">>
NameC == <<"C">>
NameX == <<"x">>
NameOp == <<"o", "p">>
NameFetch == <<"f", "e", "t", "c", "h">>
NameParse == <<"p", "a", "r", "s", "e">>
NameJson == <<"j", "s", "o", "n">>
\* a scope name that holds the marker: time_block("save_CHECKPOINT")
NameSaveCheckpoint ==
    <<"s", "a", "v", "e", "_", "C", "H", "E", "C", "K", "P", "O", "I", "N", "T">>

ScopeNames == {NameA, NameB}
MarkedNames == {NameA, NameSaveCheckpoint}
GlobalNames == {NameA}
FuncNames == {NameC}
CheckpointNames == {NameX}

EmptyMeta == <<>>
BatchMeta == [k \in {"batch_size"} |-> 25]
ScopeMetas == {BatchMeta}
CheckpointMetas == {EmptyMeta}

Contexts == {1, 2}
\* the execution context that uses the recorder alone
Main == CHOOSE c \in Contexts : \A d \in Contexts : c <= d
NoExc == "none"
None == "None"
Excs == {"E1"}
FuncResults == {"r1"}

----------------------------------------------------------------------------
(* Python string operations *)

\* sub in s
Contains(s, sub) ==
    \E i \in 1..(Len(s) - Len(sub) + 1) : SubSeq(s, i, i + Len(sub) - 1) = sub

\* SEP.join(parts)
RECURSIVE Join(_)
Join(parts) ==
    IF parts = <<>> THEN <<>>
    ELSE IF Len(parts) = 1 THEN parts[1]
    ELSE parts[1] \o SEP \o Join(Tail(parts))

\* as if the name were not split
TopLevelWhole(name) == name

\* as if the last part of the name were taken: name.split(SEP)[-1]
TopLevelLast(name) ==
    LET hits == {i \in 1..(Len(name) - Len(SEP) + 1) : SubSeq(name, i, i + Len(SEP) - 1) = SEP}
    IN  IF hits = {} THEN name
        ELSE SubSeq(name, (CHOOSE i \in hits : \A j \in hits : i >= j) + Len(SEP), Len(name))

\* name.split(SEP)[0]
TopLevel(name) ==
    LET hits == {i \in 1..(Len(name) - Len(SEP) + 1) : SubSeq(name, i, i + Len(SEP) - 1) = SEP}
    IN  IF hits = {} THEN name
        ELSE SubSeq(name, 1, (CHOOSE i \in hits : \A j \in hits : i <= j) - 1)

\* as if the stack were left out of the name
FullNameOwn(stk, name) == name

\* " > ".join(self._stack + [name]) if self._stack else name
FullName(stk, name) == IF stk # <<>> THEN Join(stk \o <<name>>) ELSE name

----------------------------------------------------------------------------
(* TimingRecord *)

TimingRecord(name, start, end, duration, metadata) ==
    [name |-> name, start_time |-> start, end_time |-> end,
     duration |-> duration, metadata |-> metadata]

----------------------------------------------------------------------------
(* Helpers *)

Front(s) == SubSeq(s, 1, Len(s) - 1)
Last(s) == s[Len(s)]

NumCheckpointRecords == Cardinality({i \in 1..Len(origin) : origin[i].op = "checkpoint"})

\* the history ids of the scopes in a call stack
Ids(fs) == [i \in 1..Len(fs) |-> fs[i].id]

\* the most recent call, as its caller saw it end
Call(op, c, kind, val) == [op |-> op, ctx |-> c, kind |-> kind, val |-> val]

----------------------------------------------------------------------------
(* Profiler.__init__ *)

Init ==
    /\ enabled \in BOOLEAN
    /\ records = <<>>
    /\ stack = <<>>
    /\ now = 0
    /\ frames = [c \in Contexts |-> <<>>]
    /\ pending = [c \in Contexts |-> NoExc]
    /\ last = Call("init", 0, "return", None)
    /\ origin = <<>>
    /\ entered = [on |-> 0, off |-> 0]
    /\ global_profiler = 1
    /\ retired = <<>>
    /\ globally_off = FALSE

(* Time passes between two reads of the clock *)
Tick ==
    /\ now < MaxClock
    /\ now' = now + 1
    /\ UNCHANGED <<enabled, records, stack, frames, pending, last, origin, entered>>
    /\ UNCHANGED module_state

(* Profiler.time up to its yield: entering `with profiler.time(name, **metadata)`.
   A frame holds the generator's locals (on: the branch taken at line 67; inst:
   the instance that self is) and, as history, the scope's sequence number id
   and the stack length depth0 it found. *)
TimeOn(c, name, metadata, tracked, inst, en, stk) ==
    /\ pending[c] = NoExc
    /\ entered.on + entered.off < MaxScopes
    /\ IF ~en
       THEN /\ frames' = [frames EXCEPT ![c] = Append(@,
                    [on |-> FALSE, name |-> name, full_name |-> <<>>, start |-> 0,
                     metadata |-> metadata, tracked |-> tracked, inst |-> inst,
                     id |-> entered.on + entered.off + 1, depth0 |-> Len(stk)])]
            /\ entered' = [entered EXCEPT !.off = @ + 1]
            /\ stack' = stk
       ELSE /\ frames' = [frames EXCEPT ![c] = Append(@,
                    [on |-> TRUE, name |-> name, full_name |-> FullName(stk, name),
                     start |-> now, metadata |-> metadata, tracked |-> tracked,
                     inst |-> inst,
                     id |-> entered.on + entered.off + 1, depth0 |-> Len(stk)])]
            /\ stack' = Append(stk, name)
            /\ entered' = [entered EXCEPT !.on = @ + 1]
    /\ last' = Call("enter", c, "return", None)
    /\ UNCHANGED <<now, pending>>

\* on the recorder that enabled, records and stack describe
TimeEnter(c, name, metadata, tracked) ==
    /\ TimeOn(c, name, metadata, tracked, global_profiler, enabled, stack)
    /\ UNCHANGED <<enabled, records, origin>>
    /\ UNCHANGED module_state

Time(c, name, metadata) == TimeEnter(c, name, metadata, FALSE)

\* as if the scope were named after the wrapper: self.time(wrapper.__name__)
TrackedAsWrapper(c, func) ==
    TimeEnter(c, <<"w", "r", "a", "p", "p", "e", "r">>, EmptyMeta, TRUE)

(* Profiler.track: the wrapper enters self.time(func.__name__) and calls func *)
TrackedCall(c, func) == TimeEnter(c, func, EmptyMeta, TRUE)

(* How the block wrapped by the innermost scope of context c may end:
   [kind |-> "return" | "raise", val |-> the result or the exception] *)
BlockOutcomes(c, f) ==
    IF pending[c] # NoExc
    THEN {[kind |-> "raise", val |-> pending[c]]}
    ELSE {[kind |-> "return", val |-> v] : v \in IF f.tracked THEN FuncResults ELSE {None}}
         \cup {[kind |-> "raise", val |-> e] : e \in Excs}

\* as if the record were appended after the yield without try/finally
RecordsOnSuccess(recs, record, block) ==
    IF block.kind = "raise" THEN recs ELSE Append(recs, record)

\* as if the record were inserted at the head of the list
RecordsPrepended(recs, record, block) == <<record>> \o recs

\* as if the pop came after the yield without try/finally
StackOnSuccess(stk, block) == IF block.kind = "raise" THEN stk ELSE Front(stk)

\* self.records.append(record), in the finally clause (the history of the
\* records is kept by the same operation on origin)
RecordsAfterExit(recs, record, block) == Append(recs, record)

\* as if the outermost name were popped: self._stack.pop(0)
StackPopFirst(stk, block) == Tail(stk)

\* self._stack.pop(), in the finally clause
StackAfterExit(stk, block) == Front(stk)

\* as if the exit looked the recorder up again: get_profiler() instead of self
AlwaysGlobal(f) == TRUE

\* self, the instance the generator of scope f was called on, is the one that
\* enabled, records and stack describe
SelfIsGlobal(f) == f.inst = global_profiler

(* Profiler.time from its yield on: leaving the `with` block *)
TimeExit(c, block) ==
    /\ frames[c] # <<>>
    /\ LET f == Last(frames[c])
           seen == [op |-> "exit", ctx |-> c, kind |-> block.kind, val |-> block.val,
                    block |-> block, scope |-> f,
                    flag |-> IF SelfIsGlobal(f) THEN enabled
                             ELSE retired[f.inst].enabled]
           end == now
           duration == end - f.start
           record == TimingRecord(f.full_name, f.start, end, duration, f.metadata)
           history == [op |-> "time", id |-> f.id, enclosing |-> Ids(Front(frames[c]))]
       IN
       /\ block \in BlockOutcomes(c, f)
       /\ frames' = [frames EXCEPT ![c] = Front(@)]
       /\ IF ~f.on
          THEN \* lines 67-69: the generator resumes after the bare yield and returns
               /\ UNCHANGED <<records, origin, stack, retired>>
               /\ last' = seen
               /\ pending' = [pending EXCEPT ![c] =
                                 IF block.kind = "raise" THEN block.val ELSE NoExc]
          ELSE IF ~SelfIsGlobal(f)
          THEN \* lines 78-90 on self, an instance that enable_profiling() has replaced
               LET old == retired[f.inst] IN
               /\ UNCHANGED <<records, origin, stack>>
               /\ IF old.stack = <<>>
                  THEN /\ retired' = [retired EXCEPT ![f.inst] =
                              [old EXCEPT !.records = RecordsAfterExit(old.records, record, block),
                                          !.origin = RecordsAfterExit(old.origin, history, block)]]
                       /\ last' = [seen EXCEPT !.kind = "raise", !.val = "IndexError"]
                       /\ pending' = [pending EXCEPT ![c] = "IndexError"]
                  ELSE /\ retired' = [retired EXCEPT ![f.inst] =
                              [old EXCEPT !.records = RecordsAfterExit(old.records, record, block),
                                          !.origin = RecordsAfterExit(old.origin, history, block),
                                          !.stack = StackAfterExit(old.stack, block)]]
                       /\ last' = seen
                       /\ pending' = [pending EXCEPT ![c] =
                                         IF block.kind = "raise" THEN block.val ELSE NoExc]
          ELSE \* lines 78-90: the finally clause
               /\ records' = RecordsAfterExit(records, record, block)
               /\ origin' = RecordsAfterExit(origin, history, block)
               /\ UNCHANGED retired
               /\ IF stack = <<>>
                  THEN \* list.pop() on an empty list raises IndexError
                       /\ UNCHANGED stack
                       /\ last' = [seen EXCEPT !.kind = "raise", !.val = "IndexError"]
                       /\ pending' = [pending EXCEPT ![c] = "IndexError"]
                  ELSE /\ stack' = StackAfterExit(stack, block)
                       /\ last' = seen
                       /\ pending' = [pending EXCEPT ![c] =
                                         IF block.kind = "raise" THEN block.val ELSE NoExc]
    /\ UNCHANGED <<enabled, now, entered, global_profiler, globally_off>>

(* The caller handles the exception in flight *)
Catch(c) ==
    /\ pending[c] # NoExc
    /\ pending' = [pending EXCEPT ![c] = NoExc]
    /\ UNCHANGED <<enabled, records, stack, now, frames, last, origin, entered>>
    /\ UNCHANGED module_state

\* as if checkpoint() did not test self.enabled
CheckpointUnguarded(c, name, metadata) ==
    /\ pending[c] = NoExc
    /\ NumCheckpointRecords < MaxCheckpoints
    /\ \E d \in 0..(MaxClock - now) :
          /\ records' = Append(records,
                TimingRecord(CheckpointPrefix \o name, now, now + d, 0, metadata))
          /\ now' = now + d
    /\ origin' = Append(origin, [op |-> "checkpoint", id |-> 0, enclosing |-> <<>>])
    /\ last' = [op |-> "checkpoint", ctx |-> c, kind |-> "return", val |-> None,
                name |-> name, flag |-> enabled]
    /\ UNCHANGED <<enabled, stack, frames, pending, entered>>
    /\ UNCHANGED module_state

(* Profiler.checkpoint on a recorder with flag en and records recs (their
   history being orig); the clock is read twice and may advance by d in between *)
CheckpointOn(c, name, metadata, en, recs, orig) ==
    /\ pending[c] = NoExc
    /\ IF ~en
       THEN /\ records' = recs
            /\ origin' = orig
            /\ UNCHANGED now
       ELSE /\ Cardinality({i \in 1..Len(orig) : orig[i].op = "checkpoint"}) < MaxCheckpoints
            /\ \E d \in 0..(MaxClock - now) :
                  /\ records' = Append(recs,
                        TimingRecord(CheckpointPrefix \o name, now, now + d, 0, metadata))
                  /\ now' = now + d
            /\ origin' = Append(orig, [op |-> "checkpoint", id |-> 0, enclosing |-> <<>>])
    /\ last' = [op |-> "checkpoint", ctx |-> c, kind |-> "return", val |-> None,
                name |-> name, flag |-> en]
    /\ UNCHANGED <<frames, pending, entered>>

\* on the recorder that enabled, records and stack describe
Checkpoint(c, name, metadata) ==
    /\ CheckpointOn(c, name, metadata, enabled, records, origin)
    /\ UNCHANGED <<enabled, stack>>
    /\ UNCHANGED module_state

(* Assignment to Profiler.enabled, as disable_profiling does with False *)
SetEnabled(b) ==
    /\ enabled' = b
    /\ UNCHANGED <<records, stack, now, frames, pending, last, origin, entered>>
    /\ UNCHANGED module_state

----------------------------------------------------------------------------
(* Profiler.get_stats *)

RECURSIVE SeqSum(_)
SeqSum(s) == IF s = <<>> THEN 0 ELSE s[1] + SeqSum(Tail(s))

RECURSIVE SeqMin(_)
SeqMin(s) ==
    IF Len(s) = 1 THEN s[1]
    ELSE LET m == SeqMin(Tail(s)) IN IF s[1] <= m THEN s[1] ELSE m

RECURSIVE SeqMax(_)
SeqMax(s) ==
    IF Len(s) = 1 THEN s[1]
    ELSE LET m == SeqMax(Tail(s)) IN IF s[1] >= m THEN s[1] ELSE m

RECURSIVE Gcd(_, _)
Gcd(a, b) == IF b = 0 THEN a ELSE Gcd(b, a % b)

\* the quotient n / d of two numbers, d > 0, as a fraction in lowest terms
Quotient(n, d) == LET g == Gcd(n, d) IN [num |-> n \div g, den |-> d \div g]

EmptyDict == [k \in {} |-> 0]

\* the loop of lines 211-218 from record i on, by_operation being acc so far
RECURSIVE ByOperation(_, _, _)
ByOperation(recs, i, acc) ==
    IF i > Len(recs) THEN acc
    ELSE LET record == recs[i] IN
         IF Contains(record.name, MARKER)
         THEN ByOperation(recs, i + 1, acc)
         ELSE LET top_level == TopLevel(record.name)
                  acc1 == IF top_level \notin DOMAIN acc
                          THEN acc @@ (top_level :> <<>>)
                          ELSE acc
              IN  ByOperation(recs, i + 1,
                              [acc1 EXCEPT ![top_level] = Append(@, record.duration)])

OperationStats(durations) ==
    [total |-> SeqSum(durations),
     count |-> Len(durations),
     avg |-> Quotient(SeqSum(durations), Len(durations)),
     min |-> SeqMin(durations),
     max |-> SeqMax(durations)]

GetStats(recs) ==
    IF recs = <<>> THEN EmptyDict
    ELSE LET by_operation == ByOperation(recs, 1, EmptyDict)
         IN  [op \in DOMAIN by_operation |-> OperationStats(by_operation[op])]

CallGetStats(c) ==
    /\ pending[c] = NoExc
    /\ last' = Call("get_stats", c, "return", GetStats(records))
    /\ UNCHANGED <<enabled, records, stack, now, frames, pending, origin, entered>>
    /\ UNCHANGED module_state

----------------------------------------------------------------------------
(* Profiler.print_summary: what it prints, as the values it hands to its
   format strings, section by section *)

DefaultTopN == 20

TopNs == {0, 2, DefaultTopN}

Zero == [num |-> 0, den |-> 1]

\* s[:n]
Slice(s, n) ==
    IF n >= 0 THEN SubSeq(s, 1, IF n < Len(s) THEN n ELSE Len(s))
    ELSE SubSeq(s, 1, IF Len(s) + n > 0 THEN Len(s) + n ELSE 0)

\* the position of key k in the dict d, a sequence of entries in insertion
\* order, or 0
KeyIndex(d, k) ==
    IF \E i \in 1..Len(d) : d[i].op = k
    THEN CHOOSE i \in 1..Len(d) : d[i].op = k
    ELSE 0

\* the loop of lines 146-158 from record i on, by_operation being acc so far
RECURSIVE SummaryGroups(_, _, _)
SummaryGroups(recs, i, acc) ==
    IF i > Len(recs) THEN acc
    ELSE LET record == recs[i] IN
         IF Contains(record.name, MARKER)
         THEN SummaryGroups(recs, i + 1, acc)
         ELSE LET top_level == TopLevel(record.name)
                  acc1 == IF KeyIndex(acc, top_level) = 0
                          THEN Append(acc, [op |-> top_level, total |-> 0, count |-> 0,
                                            records |-> <<>>])
                          ELSE acc
                  k == KeyIndex(acc1, top_level)
              IN  SummaryGroups(recs, i + 1,
                     [acc1 EXCEPT ![k] = [op |-> @.op,
                                          total |-> @.total + record.duration,
                                          count |-> @.count + 1,
                                          records |-> Append(@.records, record)]])

\* as if sorted() were not called
Unsorted(items, keys) == items

\* the positions 1..n in the order of a stable sort by keys, largest key first
RECURSIVE SortedOrder(_, _)
SortedOrder(keys, n) ==
    IF n = 0 THEN <<>>
    ELSE LET before == SortedOrder(keys, n - 1)
             k == Cardinality({j \in 1..Len(before) : keys[before[j]] >= keys[n]})
         IN  SubSeq(before, 1, k) \o <<n>> \o SubSeq(before, k + 1, Len(before))

\* sorted(items, key=lambda x: -key(x)), keys[i] being key(items[i])
SortedDesc(items, keys) ==
    [i \in 1..Len(items) |-> items[SortedOrder(keys, Len(items))[i]]]

\* lines 166-171: one row of the table
SummaryRow(data, total_time) ==
    [op_name |-> data.op,
     total |-> data.total,
     count |-> data.count,
     avg |-> IF data.count > 0 THEN Quotient(data.total, data.count) ELSE Zero,
     pct |-> IF total_time > 0 THEN Quotient(data.total * 100, total_time) ELSE Zero]

\* lines 180-183: one line of the slowest operations
SlowestLine(record) ==
    [name |-> IF Len(record.name) <= 57 THEN record.name
              ELSE SubSeq(record.name, 1, 54) \o <<".", ".", ".">>,
     duration |-> record.duration,
     meta_str |-> record.metadata]

PrintSummary(recs, top_n) ==
    IF recs = <<>>
    THEN [no_data |-> TRUE, total_time |-> 0, rows |-> <<>>, slowest |-> <<>>,
          checkpoints |-> <<>>]
    ELSE LET total_time == SeqSum([i \in 1..Len(SelectSeq(recs, LAMBDA r : ~Contains(r.name, MARKER)))
                                     |-> SelectSeq(recs, LAMBDA r : ~Contains(r.name, MARKER))[i].duration])
             by_operation == SummaryGroups(recs, 1, <<>>)
             sorted_ops == SortedDesc(by_operation,
                                     [i \in 1..Len(by_operation) |-> by_operation[i].total])
             shown == Slice(sorted_ops, top_n)
             all_records == SelectSeq(recs, LAMBDA r : ~Contains(r.name, MARKER))
             slowest == Slice(SortedDesc(all_records,
                                [i \in 1..Len(all_records) |-> all_records[i].duration]), 10)
             checkpoints == SelectSeq(recs, LAMBDA r : Contains(r.name, MARKER))
         IN  [no_data |-> FALSE,
              total_time |-> total_time,
              rows |-> [i \in 1..Len(shown) |-> SummaryRow(shown[i], total_time)],
              slowest |-> [i \in 1..Len(slowest) |-> SlowestLine(slowest[i])],
              checkpoints |-> [i \in 1..Len(checkpoints) |->
                                  [name |-> checkpoints[i].name,
                                   metadata |-> checkpoints[i].metadata]]]

CallPrintSummary(c, top_n) ==
    /\ pending[c] = NoExc
    /\ last' = [op |-> "print_summary", ctx |-> c, kind |-> "return", val |-> None,
                top_n |-> top_n, printed |-> PrintSummary(records, top_n)]
    /\ UNCHANGED <<enabled, records, stack, now, frames, pending, origin, entered>>
    /\ UNCHANGED module_state

----------------------------------------------------------------------------
(* TimingRecord.to_dict and Profiler.export_json. Times are held in ticks; the
   exported duration_seconds is a number of milliseconds and the exported
   timestamps are numbers of microseconds. *)

\* as if the quotient were cut off instead of rounded
CutOff(n, d) == {n \div d}

\* the integers nearest to n / d: one, or the two neighbours when n / d lies
\* halfway between them (which of the two a float rounds to depends on its
\* binary value)
Nearest(n, d) ==
    LET q == n \div d
        r == n % d
    IN  IF 2 * r < d THEN {q} ELSE IF 2 * r > d THEN {q + 1} ELSE {q, q + 1}

\* round(self.duration, 3)
Round3(duration) == Nearest(duration, TicksPerMilli)

\* datetime.fromtimestamp(t).isoformat()
IsoFormat(t) == Nearest(t * 1000, TicksPerMilli)

\* the dicts that to_dict() can return for a record
ToDict(record) ==
    {[name |-> record.name,
      start_time |-> [micros |-> s],
      end_time |-> [micros |-> e],
      duration_seconds |-> [millis |-> d],
      metadata |-> record.metadata] :
        s \in IsoFormat(record.start_time), e \in IsoFormat(record.end_time),
        d \in Round3(record.duration)}

\* the lists [r.to_dict() for r in recs]
RECURSIVE ToDicts(_)
ToDicts(recs) ==
    IF recs = <<>> THEN {<<>>}
    ELSE {Append(ds, d) : ds \in ToDicts(Front(recs)), d \in ToDict(Last(recs))}

\* the data that export_json() can serialize
ExportData(recs) ==
    {[total_time |-> SeqSum([i \in 1..Len(recs) |-> recs[i].duration]),
      num_operations |-> Len(recs),
      records |-> ds] : ds \in ToDicts(recs)}

Paths == {"profile.json"}

\* as if export_json() emptied the record list once it is written
ExportAndClear(c, filepath) ==
    /\ pending[c] = NoExc
    /\ \E data \in ExportData(records) :
          last' = [op |-> "export_json", ctx |-> c, kind |-> "return", val |-> None,
                   filepath |-> filepath, written |-> data]
    /\ records' = <<>>
    /\ origin' = <<>>
    /\ UNCHANGED <<enabled, stack, now, frames, pending, entered>>
    /\ UNCHANGED module_state

CallExportJson(c, filepath) ==
    /\ pending[c] = NoExc
    /\ \E data \in ExportData(records) :
          last' = [op |-> "export_json", ctx |-> c, kind |-> "return", val |-> None,
                   filepath |-> filepath, written |-> data]
    /\ UNCHANGED <<enabled, records, stack, now, frames, pending, origin, entered>>
    /\ UNCHANGED module_state

----------------------------------------------------------------------------
(* cli.py: analyze_bottlenecks on a profile that export_json() has written.
   json.loads gives back the names and numbers that json.dumps was given, so
   the profile is the exported data; a duration is a number of milliseconds. *)

\* as if the cli grouped by the innermost name: name.split(" > ")[-1]
Innermost(name) == TopLevelLast(name)

\* name.split(" > ")[0]
AnalysisTopLevel(name) == TopLevel(name)

\* the loop of lines 23-33 from record i on, by_operation being acc so far
RECURSIVE AnalysisByOperation(_, _, _)
AnalysisByOperation(recs, i, acc) ==
    IF i > Len(recs) THEN acc
    ELSE LET name == recs[i].name
             duration == recs[i].duration_seconds.millis
         IN  IF Contains(name, MARKER)
             THEN AnalysisByOperation(recs, i + 1, acc)
             ELSE LET top_level == AnalysisTopLevel(name)
                      acc1 == IF top_level \notin DOMAIN acc
                              THEN acc @@ (top_level :> <<>>)
                              ELSE acc
                  IN  AnalysisByOperation(recs, i + 1,
                                          [acc1 EXCEPT ![top_level] = Append(@, duration)])

\* sorted(durations)
RECURSIVE Sorted(_)
Sorted(s) ==
    IF s = <<>> THEN <<>>
    ELSE LET x == Last(s)
             before == Sorted(Front(s))
             n == Cardinality({j \in 1..Len(before) : before[j] <= x})
         IN  SubSeq(before, 1, n) \o <<x>> \o SubSeq(before, n + 1, Len(before))

\* lines 38-45: the statistics of one group, in milliseconds
AnalysisStats(durations) ==
    [total |-> SeqSum(durations),
     count |-> Len(durations),
     avg |-> Quotient(SeqSum(durations), Len(durations)),
     min |-> SeqMin(durations),
     max |-> SeqMax(durations),
     median |-> IF durations # <<>> THEN Sorted(durations)[Len(durations) \div 2 + 1]
                ELSE 0]

AnalyzeBottlenecks(profile) ==
    LET by_operation == AnalysisByOperation(profile.records, 1, EmptyDict)
    IN  [op \in DOMAIN by_operation |-> AnalysisStats(by_operation[op])]

\* the cli reads the file that the last export_json() wrote
CallAnalyzeBottlenecks(c) ==
    /\ pending[c] = NoExc
    /\ last.op = "export_json"
    /\ last' = [op |-> "analyze_bottlenecks", ctx |-> c, kind |-> "return",
                val |-> AnalyzeBottlenecks(last.written), profile |-> last.written]
    /\ UNCHANGED <<enabled, records, stack, now, frames, pending, origin, entered>>
    /\ UNCHANGED module_state

----------------------------------------------------------------------------
(* The module-level recorder and the free functions. enabled, records, stack
   and origin are the fields of the instance _global_profiler refers to; while
   it is None they belong to no instance and nothing reads them. *)

\* as if get_profiler() returned _global_profiler without creating one
NeverNone(g) == FALSE

\* _global_profiler is None
IsNone(g) == g = 0

\* the truth value of _global_profiler in `if _global_profiler:`
Truthy(g) == g # 0

\* Profiler(enabled=True) becomes _global_profiler, its fields being those that
\* the call made on it leaves: en, recs, stk
Created(en, recs, stk) ==
    /\ global_profiler' = global_profiler + 1
    /\ enabled' = en
    /\ records' = recs
    /\ stack' = stk

\* a method is called on None
AttributeError(op, c) ==
    /\ pending[c] = NoExc
    /\ last' = Call(op, c, "raise", "AttributeError")
    /\ pending' = [pending EXCEPT ![c] = "AttributeError"]
    /\ UNCHANGED <<enabled, records, stack, now, frames, origin, entered>>
    /\ UNCHANGED module_state

GetProfiler(c) ==
    /\ pending[c] = NoExc
    /\ IF IsNone(global_profiler)
       THEN /\ Created(TRUE, <<>>, <<>>)
            /\ origin' = <<>>
       ELSE UNCHANGED <<global_profiler, enabled, records, stack, origin>>
    /\ last' = [op |-> "get_profiler", ctx |-> c, kind |-> "return",
                val |-> global_profiler', created |-> IsNone(global_profiler)]
    /\ UNCHANGED <<now, frames, pending, entered, retired, globally_off>>

\* as if enable_profiling() set the flag of the existing recorder
EnableByFlag(c) ==
    /\ pending[c] = NoExc
    /\ global_profiler # 0
    /\ global_profiler < MaxInstances
    /\ enabled' = TRUE
    /\ globally_off' = FALSE
    /\ last' = [op |-> "enable_profiling", ctx |-> c, kind |-> "return", val |-> None,
                replaced |-> global_profiler]
    /\ UNCHANGED <<records, stack, origin, global_profiler, retired>>
    /\ UNCHANGED <<now, frames, pending, entered>>

EnableProfiling(c) ==
    /\ pending[c] = NoExc
    /\ global_profiler < MaxInstances
    /\ retired' = IF global_profiler = 0 THEN retired
                  ELSE Append(retired, [enabled |-> enabled, records |-> records,
                                        stack |-> stack, origin |-> origin])
    /\ Created(TRUE, <<>>, <<>>)
    /\ origin' = <<>>
    /\ globally_off' = FALSE
    /\ last' = [op |-> "enable_profiling", ctx |-> c, kind |-> "return", val |-> None,
                replaced |-> global_profiler]
    /\ UNCHANGED <<now, frames, pending, entered>>

DisableProfiling(c) ==
    /\ pending[c] = NoExc
    /\ IF Truthy(global_profiler) THEN enabled' = FALSE ELSE UNCHANGED enabled
    /\ globally_off' = TRUE
    /\ last' = Call("disable_profiling", c, "return", None)
    /\ UNCHANGED <<records, stack, now, frames, pending, origin, entered>>
    /\ UNCHANGED <<global_profiler, retired>>

\* with time_block(name, **metadata): get_profiler().time(name, **metadata)
TimeBlock(c, name, metadata) ==
    IF IsNone(global_profiler)
    THEN /\ TimeOn(c, name, metadata, FALSE, global_profiler + 1, TRUE, <<>>)
         /\ Created(TRUE, <<>>, stack')
         /\ origin' = <<>>
         /\ UNCHANGED <<retired, globally_off>>
    ELSE IF global_profiler = 0
    THEN AttributeError("enter", c)
    ELSE Time(c, name, metadata)

\* checkpoint(name, **metadata): get_profiler().checkpoint(name, **metadata)
FreeCheckpoint(c, name, metadata) ==
    IF IsNone(global_profiler)
    THEN /\ CheckpointOn(c, name, metadata, TRUE, <<>>, <<>>)
         /\ Created(TRUE, records', <<>>)
         /\ UNCHANGED <<retired, globally_off>>
    ELSE IF global_profiler = 0
    THEN AttributeError("checkpoint", c)
    ELSE Checkpoint(c, name, metadata)

\* print_summary(top_n): get_profiler().print_summary(top_n=top_n)
FreePrintSummary(c, top_n) ==
    IF IsNone(global_profiler)
    THEN /\ pending[c] = NoExc
         /\ Created(TRUE, <<>>, <<>>)
         /\ origin' = <<>>
         /\ last' = [op |-> "print_summary", ctx |-> c, kind |-> "return", val |-> None,
                     top_n |-> top_n, printed |-> PrintSummary(<<>>, top_n)]
         /\ UNCHANGED <<now, frames, pending, entered, retired, globally_off>>
    ELSE IF global_profiler = 0
    THEN AttributeError("print_summary", c)
    ELSE CallPrintSummary(c, top_n)

\* export_json(filepath): get_profiler().export_json(filepath)
FreeExportJson(c, filepath) ==
    IF IsNone(global_profiler)
    THEN /\ pending[c] = NoExc
         /\ Created(TRUE, <<>>, <<>>)
         /\ origin' = <<>>
         /\ \E data \in ExportData(<<>>) :
               last' = [op |-> "export_json", ctx |-> c, kind |-> "return", val |-> None,
                        filepath |-> filepath, written |-> data]
         /\ UNCHANGED <<now, frames, pending, entered, retired, globally_off>>
    ELSE IF global_profiler = 0
    THEN AttributeError("export_json", c)
    ELSE CallExportJson(c, filepath)

----------------------------------------------------------------------------
(* A recorder, constructed enabled or disabled, driven from one execution
   context: scopes nest and close in LIFO order *)

Exits(c) ==
    \E k \in {"return", "raise"}, v \in FuncResults \cup {None} \cup Excs \cup {"IndexError"} :
        TimeExit(c, [kind |-> k, val |-> v])

Next ==
    \/ Tick
    \/ \E n \in ScopeNames, m \in ScopeMetas : Time(Main, n, m)
    \/ \E f \in FuncNames : TrackedCall(Main, f)
    \/ Exits(Main)
    \/ Catch(Main)
    \/ \E n \in CheckpointNames, m \in CheckpointMetas : Checkpoint(Main, n, m)
    \/ CallGetStats(Main)

Spec == Init /\ [][Next]_vars

(* The same, with the enabled flag assigned at any moment *)

NextToggle ==
    \/ Next
    \/ \E b \in BOOLEAN : SetEnabled(b)

SpecToggle == Init /\ [][NextToggle]_vars

(* The same, with the summary printed and the records exported as well *)

NextAll ==
    \/ NextToggle
    \/ CallPrintSummary(Main, DefaultTopN)
    \/ \E filepath \in Paths : CallExportJson(Main, filepath)

SpecAll == Init /\ [][NextAll]_vars

(* A recorder whose flag is assigned at any moment and whose three reading
   operations are called at any moment, scopes being open or not *)

NextReaders ==
    \/ Tick
    \/ \E n \in GlobalNames, m \in ScopeMetas : Time(Main, n, m)
    \/ Exits(Main)
    \/ Catch(Main)
    \/ \E n \in CheckpointNames, m \in CheckpointMetas : Checkpoint(Main, n, m)
    \/ \E b \in BOOLEAN : SetEnabled(b)
    \/ CallGetStats(Main)
    \/ \E top_n \in TopNs : CallPrintSummary(Main, top_n)
    \/ \E filepath \in Paths : CallExportJson(Main, filepath)

SpecReaders == Init /\ [][NextReaders]_vars

(* One recorder shared by two execution contexts (threads, or tasks that
   interleave at their awaits), each of which nests and closes its own scopes
   in LIFO order *)

NextShared ==
    \/ Tick
    \/ \E c \in Contexts, n \in ScopeNames, m \in ScopeMetas : Time(c, n, m)
    \/ \E c \in Contexts, f \in FuncNames : TrackedCall(c, f)
    \/ \E c \in Contexts : Exits(c)
    \/ \E c \in Contexts : Catch(c)

SpecShared == Init /\ [][NextShared]_vars

(* The same, with the enabled flag assigned at any moment *)

NextSharedToggle ==
    \/ NextShared
    \/ \E b \in BOOLEAN : SetEnabled(b)

SpecSharedToggle == Init /\ [][NextSharedToggle]_vars

(* The module-level recorder used through the free functions from one
   context, starting when profiler.py has been imported *)

InitGlobal ==
    /\ global_profiler = 0
    /\ retired = <<>>
    /\ globally_off = FALSE
    /\ enabled = FALSE
    /\ records = <<>>
    /\ stack = <<>>
    /\ origin = <<>>
    /\ now = 0
    /\ frames = [c \in Contexts |-> <<>>]
    /\ pending = [c \in Contexts |-> NoExc]
    /\ last = Call("init", 0, "return", None)
    /\ entered = [on |-> 0, off |-> 0]

NextGlobal ==
    \/ Tick
    \/ GetProfiler(Main)
    \/ EnableProfiling(Main)
    \/ DisableProfiling(Main)
    \/ \E n \in GlobalNames, m \in ScopeMetas : TimeBlock(Main, n, m)
    \/ Exits(Main)
    \/ Catch(Main)
    \/ \E n \in CheckpointNames, m \in CheckpointMetas : FreeCheckpoint(Main, n, m)
    \/ FreePrintSummary(Main, DefaultTopN)
    \/ \E filepath \in Paths : FreeExportJson(Main, filepath)

SpecGlobal == InitGlobal /\ [][NextGlobal]_vars

(* The recorder used from one context with a scope name that holds the
   marker, and its statistics read *)

NextMarked ==
    \/ Tick
    \/ \E n \in MarkedNames, m \in ScopeMetas : Time(Main, n, m)
    \/ Exits(Main)
    \/ Catch(Main)
    \/ \E n \in CheckpointNames, m \in CheckpointMetas : Checkpoint(Main, n, m)
    \/ CallGetStats(Main)
    \/ CallPrintSummary(Main, DefaultTopN)

SpecMarked == Init /\ [][NextMarked]_vars

----------------------------------------------------------------------------
(* The statistics functions applied to record lists drawn from a pool *)

StatNames == {NameOp, NameParse, NameFetch \o SEP \o NameParse \o SEP \o NameJson}

RecordPool ==
    {TimingRecord(n, 0, d, d, IF n = NameParse THEN BatchMeta ELSE EmptyMeta) :
        n \in StatNames, d \in 0..MaxDur}
    \cup {TimingRecord(CheckpointPrefix \o NameX, 0, 0, 0, EmptyMeta)}

RECURSIVE SeqsUpTo(_, _)
SeqsUpTo(S, n) ==
    IF n = 0 THEN {<<>>}
    ELSE LET shorter == SeqsUpTo(S, n - 1)
         IN  shorter \cup {Append(s, x) : s \in {t \in shorter : Len(t) = n - 1}, x \in S}

InitStats ==
    /\ enabled = TRUE
    /\ records \in SeqsUpTo(RecordPool, MaxRecs)
    /\ stack = <<>>
    /\ now = MaxDur
    /\ frames = [c \in Contexts |-> <<>>]
    /\ pending = [c \in Contexts |-> NoExc]
    /\ last = Call("init", 0, "return", None)
    /\ origin = [i \in 1..Len(records) |-> [op |-> "drawn", id |-> 0, enclosing |-> <<>>]]
    /\ entered = [on |-> 0, off |-> 0]
    /\ global_profiler = 1
    /\ retired = <<>>
    /\ globally_off = FALSE

NextStats ==
    \/ CallGetStats(Main)
    \/ \E top_n \in TopNs : CallPrintSummary(Main, top_n)
    \/ \E filepath \in Paths : CallExportJson(Main, filepath)

SpecStats == InitStats /\ [][NextStats]_vars

(* The same record lists exported and the export analysed by the cli *)

NextAnalysis ==
    \/ CallGetStats(Main)
    \/ \E filepath \in Paths : CallExportJson(Main, filepath)
    \/ CallAnalyzeBottlenecks(Main)

SpecAnalysis == InitStats /\ [][NextAnalysis]_vars

----------------------------------------------------------------------------
(* Properties of the recorder used from one context *)

\* the names of the scopes in a call stack, outermost first
Names(fs) == [i \in 1..Len(fs) |-> fs[i].name]

\* the scopes of a call stack that were entered while the recorder was enabled
OnScopes(fs) == SelectSeq(fs, LAMBDA f : f.on)

\* names joined by " > ", outermost first
RECURSIVE Qualified(_)
Qualified(names) ==
    IF Len(names) = 1 THEN names[1]
    ELSE Qualified(Front(names)) \o <<" ", ">", " ">> \o Last(names)

Range(s) == {s[i] : i \in 1..Len(s)}

LastExitRecorded == last.op = "exit" /\ last.scope.on

\* C1: on an enabled recorder used from one context, the stack is as long as
\* the number of open scopes in every state, and after the exit of a scope,
\* normal or by failure, it has the length it had before that scope was entered.
C1_StackLength ==
    /\ enabled => Len(stack) = Len(frames[Main])
    /\ LastExitRecorded => Len(stack) = last.scope.depth0

C1_Witness ==
    /\ enabled
    /\ last.op = "exit" /\ last.block.kind = "raise"
    /\ last.scope.depth0 = 2 /\ Len(stack) = 2

\* C2: when the block of a scope on an enabled recorder fails, exactly one
\* record is appended for that scope, with a nonnegative duration, and the
\* caller observes the same failure; when the block returns, so does time().
C2_FailureRecorded ==
    /\ (LastExitRecorded /\ last.block.kind = "raise") =>
          /\ records # <<>>
          /\ Cardinality({i \in 1..Len(origin) :
                             origin[i].op = "time" /\ origin[i].id = last.scope.id}) = 1
          /\ Last(origin).id = last.scope.id
          /\ Last(records).name = last.scope.full_name
          /\ Last(records).duration >= 0
          /\ last.kind = "raise" /\ last.val = last.block.val
    /\ (LastExitRecorded /\ last.block.kind = "return") => last.kind = "return"

C2_Witness ==
    /\ LastExitRecorded /\ last.block.kind = "raise" /\ last.kind = "raise"
    /\ last.val = "E1"
    /\ Last(records).duration = 1

\* C3: the name recorded for a scope is the names of the scopes open when it
\* was entered, outermost first, then its own name, joined by " > "; for A
\* containing B containing C the names are "A", "A > B" and "A > B > C".
C3_QualifiedNames ==
    /\ \A i \in 1..Len(frames[Main]) :
          frames[Main][i].on =>
             frames[Main][i].full_name =
                Qualified(Names(OnScopes(SubSeq(frames[Main], 1, i))))
    /\ LastExitRecorded =>
          Last(records).name =
             Qualified(Names(OnScopes(frames[Main])) \o <<last.scope.name>>)
    /\ (LastExitRecorded /\ Names(frames[Main]) = <<NameA, NameB>>
           /\ last.scope.name = NameC) =>
          Last(records).name = <<"A", " ", ">", " ", "B", " ", ">", " ", "C">>

C3_Witness ==
    /\ Len(records) = 3
    /\ records[1].name = <<"A", " ", ">", " ", "B", " ", ">", " ", "C">>
    /\ records[2].name = <<"A", " ", ">", " ", "B">>
    /\ records[3].name = <<"A">>

\* C4: the record of an inner scope is appended before the record of every
\* scope that encloses it.
C4_InnerFirst ==
    \A i, j \in 1..Len(records) :
        (origin[i].op = "time" /\ origin[j].op = "time"
            /\ origin[j].id \in Range(origin[i].enclosing)) => i < j

C4_Witness ==
    /\ Len(records) = 3
    /\ origin[1].enclosing = <<1, 2>> /\ origin[2].enclosing = <<1>>
    /\ origin[3].enclosing = <<>>
    /\ records[1].name = NameA \o SEP \o NameB \o SEP \o NameC
    /\ records[3].name = NameA

\* C5: on an enabled recorder with no checkpoint, once every scope has closed,
\* normally or by failure, there are as many records as scopes were entered
\* and the stack is empty.
C5_RecordPerScope ==
    (enabled /\ frames[Main] = <<>> /\ NumCheckpointRecords = 0) =>
        /\ Len(records) = entered.on + entered.off
        /\ stack = <<>>

C5_Witness ==
    /\ enabled /\ frames[Main] = <<>> /\ NumCheckpointRecords = 0
    /\ entered.on = 3 /\ Len(records) = 3
    /\ last.op = "exit" /\ last.block.kind = "raise"

\* C6: on a recorder that is disabled from its construction on, scopes,
\* tracked calls and checkpoints leave the record list and the stack empty,
\* every wrapped block runs and ends for its caller as it ended itself, and
\* no call fails on its own.
C6_DisabledPassThrough ==
    ~enabled =>
        /\ records = <<>>
        /\ stack = <<>>
        /\ last.op = "enter" => (last.kind = "return" /\ frames[last.ctx] # <<>>)
        /\ last.op = "checkpoint" => last.kind = "return"
        /\ last.op = "exit" => (last.kind = last.block.kind /\ last.val = last.block.val)

C6_Witness ==
    /\ ~enabled
    /\ entered.off = 3
    /\ last.op = "exit" /\ last.scope.tracked
    /\ last.kind = "return" /\ last.val = "r1"

----------------------------------------------------------------------------
(* Properties of the recorder whose flag is assigned while it is in use *)

\* C7, as claimed: no step taken while the flag is false creates a record or
\* changes the stack, the exit of a scope entered while the flag was true
\* included.
C7_NoEffectWhileDisabled ==
    [][~enabled => (records' = records /\ stack' = stack)]_vars

\* the exit of the innermost scope of context c, which was entered while the
\* flag was true: its record is appended and the stack is popped
RecordedExit(c) ==
    /\ frames[c] # <<>>
    /\ Last(frames[c]).on
    /\ frames'[c] = Front(frames[c])
    /\ Len(records') = Len(records) + 1
    /\ SubSeq(records', 1, Len(records)) = records
    /\ Last(records').name = Last(frames[c]).full_name
    /\ stack' = Front(stack)

\* C7, amended: while the flag is false no scope entry, no checkpoint and no
\* exit of a scope entered while the flag was false creates a record or
\* changes the stack; the exit of a scope entered while the flag was true
\* still appends that scope's record and pops the stack.
C7_DisabledOnlyCompletesOpenScopes ==
    [][~enabled => \/ (records' = records /\ stack' = stack)
                   \/ \E c \in Contexts : RecordedExit(c)]_vars

C7_Witness ==
    /\ last.op = "exit" /\ last.scope.on /\ ~last.flag
    /\ records # <<>> /\ Last(origin).id = last.scope.id

----------------------------------------------------------------------------
(* Properties of checkpoint and of the records *)

\* the records that checkpoint() did not append
RECURSIVE TimedFrom(_)
TimedFrom(i) ==
    IF i > Len(records) THEN <<>>
    ELSE (IF origin[i].op = "checkpoint" THEN <<>> ELSE <<records[i]>>) \o TimedFrom(i + 1)

\* C8: checkpoint() never changes the stack; enabled, it appends exactly one
\* record, named "CHECKPOINT: " followed by the name given; and get_stats()
\* returns what it would return without the records that checkpoint() appended.
C8_CheckpointFrame ==
    /\ [][\A c \in Contexts, n \in CheckpointNames, m \in CheckpointMetas :
            Checkpoint(c, n, m) =>
               /\ stack' = stack
               /\ IF enabled
                  THEN /\ Len(records') = Len(records) + 1
                       /\ SubSeq(records', 1, Len(records)) = records
                       /\ Last(records').name =
                             <<"C", "H", "E", "C", "K", "P", "O", "I", "N", "T", ":", " ">> \o n
                  ELSE records' = records]_vars
    /\ [](last.op = "get_stats" => last.val = GetStats(TimedFrom(1)))

C8_Witness ==
    /\ last.op = "get_stats"
    /\ NumCheckpointRecords = 1
    /\ Len(records) = 2
    /\ stack # <<>>
    /\ DOMAIN last.val # {}

\* C9: every record has duration = end_time - start_time and end_time >=
\* start_time, and every checkpoint record has start_time = end_time and
\* duration 0.
C9_DurationIsEndMinusStart ==
    \A i \in 1..Len(records) :
        /\ records[i].duration = records[i].end_time - records[i].start_time
        /\ records[i].end_time >= records[i].start_time
        /\ origin[i].op = "checkpoint" =>
              (records[i].start_time = records[i].end_time /\ records[i].duration = 0)

----------------------------------------------------------------------------
(* Properties of the statistics *)

HasMarker(name) ==
    \E i \in 1..Len(name) :
        /\ i + 9 <= Len(name)
        /\ <<name[i], name[i+1], name[i+2], name[i+3], name[i+4],
             name[i+5], name[i+6], name[i+7], name[i+8], name[i+9]>>
              = <<"C", "H", "E", "C", "K", "P", "O", "I", "N", "T">>

SepAt(name, k) ==
    /\ k + 2 <= Len(name)
    /\ name[k] = " " /\ name[k+1] = ">" /\ name[k+2] = " "

\* the part of a qualified name before its first " > "
FirstSegment(name) ==
    IF \E k \in 1..Len(name) : SepAt(name, k)
    THEN LET k == CHOOSE k \in 1..Len(name) :
                     SepAt(name, k) /\ \A j \in 1..(k - 1) : ~SepAt(name, j)
         IN  [i \in 1..(k - 1) |-> name[i]]
    ELSE name

RECURSIVE SumOver(_, _)
SumOver(recs, I) ==
    IF I = {} THEN 0
    ELSE LET i == CHOOSE x \in I : TRUE IN recs[i].duration + SumOver(recs, I \ {i})

\* the records whose name does not hold the marker CHECKPOINT
Counted(recs) == {i \in 1..Len(recs) : ~HasMarker(recs[i].name)}

Group(recs, top) == {i \in Counted(recs) : FirstSegment(recs[i].name) = top}

ExampleRecords ==
    <<TimingRecord(NameOp, 0, 1, 1, EmptyMeta),
      TimingRecord(NameOp, 0, 3, 3, EmptyMeta),
      TimingRecord(CheckpointPrefix \o NameX, 0, 0, 0, EmptyMeta)>>

ExampleStats ==
    NameOp :> [total |-> 4, count |-> 2, avg |-> [num |-> 2, den |-> 1],
               min |-> 1, max |-> 3]

\* C10: get_stats() returns one entry per top-level name among the records
\* whose name does not hold the marker, with the total, count, average,
\* minimum and maximum of that group's durations; nothing for no records;
\* and {op: total 4, count 2, avg 2, min 1, max 3} for [op 1, op 3,
\* "CHECKPOINT: x" 0].
C10_StatsPerTopLevel ==
    last.op = "get_stats" =>
        LET stats == last.val IN
        /\ DOMAIN stats = {FirstSegment(records[i].name) : i \in Counted(records)}
        /\ \A top \in DOMAIN stats :
              LET g == Group(records, top) IN
              /\ stats[top].count = Cardinality(g)
              /\ stats[top].total = SumOver(records, g)
              /\ stats[top].avg.den > 0
              /\ stats[top].avg.num * stats[top].count = stats[top].total * stats[top].avg.den
              /\ \E i \in g : records[i].duration = stats[top].min
              /\ \A i \in g : stats[top].min <= records[i].duration
              /\ \E i \in g : records[i].duration = stats[top].max
              /\ \A i \in g : stats[top].max >= records[i].duration
        /\ records = <<>> => DOMAIN stats = {}
        /\ records = ExampleRecords => stats = ExampleStats

C10_Witness ==
    /\ last.op = "get_stats"
    /\ records = ExampleRecords
    /\ last.val[NameOp].total = 4 /\ last.val[NameOp].count = 2
    /\ DOMAIN last.val = {NameOp}

----------------------------------------------------------------------------
(* Which records the statistics leave out *)

\* the records that a scope or a tracked call appended
Timed == {i \in 1..Len(records) : origin[i].op = "time"}

TimedGroup(top) == {i \in Timed : FirstSegment(records[i].name) = top}

\* the records that checkpoint() appended, in their order
RECURSIVE CheckpointsFrom(_)
CheckpointsFrom(i) ==
    IF i > Len(records) THEN <<>>
    ELSE (IF origin[i].op = "checkpoint"
          THEN <<[name |-> records[i].name, metadata |-> records[i].metadata]>>
          ELSE <<>>) \o CheckpointsFrom(i + 1)

\* C11: get_stats() and print_summary() leave a record out of their groups if
\* and only if checkpoint() created it: every record of a scope or of a
\* tracked call, whatever its name, is counted in the group of its top-level
\* name, and the checkpoint section of the summary lists the records that
\* checkpoint() created and no others.
C11_OnlyCheckpointRecordsLeftOut ==
    /\ last.op = "get_stats" =>
          /\ DOMAIN last.val = {FirstSegment(records[i].name) : i \in Timed}
          /\ \A top \in DOMAIN last.val :
                last.val[top].count = Cardinality(TimedGroup(top))
    /\ (last.op = "print_summary" /\ ~last.printed.no_data) =>
          LET rows == last.printed.rows IN
          /\ {rows[k].op_name : k \in 1..Len(rows)}
                = {FirstSegment(records[i].name) : i \in Timed}
          /\ \A k \in 1..Len(rows) :
                rows[k].count = Cardinality(TimedGroup(rows[k].op_name))
          /\ last.printed.checkpoints = CheckpointsFrom(1)

\* the sum of the numbers f[x], x in S
RECURSIVE SumOf(_, _)
SumOf(f, S) ==
    IF S = {} THEN 0
    ELSE LET x == CHOOSE y \in S : TRUE IN f[x] + SumOf(f, S \ {x})

NestedName == <<"f", "e", "t", "c", "h", " ", ">", " ", "p", "a", "r", "s", "e",
                " ", ">", " ", "j", "s", "o", "n">>

\* C12: the groups partition the records whose name does not hold the marker
\* (the records the summary does not list as checkpoints): a record is counted
\* in the group of the part of its name before the first " > " and in no
\* other ("fetch > parse > json" in "fetch" only), so the counts of the groups
\* add up to the number of these records and the totals of the groups to the
\* grand total of the summary.
C12_GroupsPartition ==
    /\ last.op = "get_stats" =>
          LET stats == last.val IN
          /\ \A i \in Counted(records) : FirstSegment(records[i].name) \in DOMAIN stats
          /\ \A top \in DOMAIN stats : stats[top].count = Cardinality(Group(records, top))
          /\ SumOf([t \in DOMAIN stats |-> stats[t].count], DOMAIN stats)
                = Cardinality(Counted(records))
          /\ SumOf([t \in DOMAIN stats |-> stats[t].total], DOMAIN stats)
                = SumOver(records, Counted(records))
          /\ (\E i \in 1..Len(records) : records[i].name = NestedName) =>
                /\ <<"f", "e", "t", "c", "h">> \in DOMAIN stats
                /\ <<"j", "s", "o", "n">> \notin DOMAIN stats
                /\ <<"p", "a", "r", "s", "e">> \in DOMAIN stats
                      <=> \E i \in 1..Len(records) : records[i].name = <<"p", "a", "r", "s", "e">>
    /\ (last.op = "print_summary" /\ last.top_n = 20 /\ ~last.printed.no_data) =>
          LET rows == last.printed.rows IN
          /\ \A j, k \in 1..Len(rows) : rows[j].op_name = rows[k].op_name => j = k
          /\ \A k \in 1..Len(rows) :
                /\ rows[k].count = Cardinality(Group(records, rows[k].op_name))
                /\ rows[k].total = SumOver(records, Group(records, rows[k].op_name))
          /\ SumOf([k \in 1..Len(rows) |-> rows[k].count], 1..Len(rows))
                = Cardinality(Counted(records))
          /\ SumOf([k \in 1..Len(rows) |-> rows[k].count], 1..Len(rows))
                + Len(last.printed.checkpoints) = Len(records)
          /\ SumOf([k \in 1..Len(rows) |-> rows[k].total], 1..Len(rows))
                = last.printed.total_time

C12_Witness ==
    /\ last.op = "print_summary" /\ last.top_n = 20
    /\ Len(records) = 3
    /\ records[1].name = NestedName /\ records[1].duration = 1
    /\ records[2].name = <<"p", "a", "r", "s", "e">> /\ records[2].duration = 2
    /\ HasMarker(records[3].name)
    /\ Len(last.printed.rows) = 2
    /\ last.printed.total_time = 3

----------------------------------------------------------------------------
(* Properties of the export *)

\* C13: export_json() writes num_operations equal to the number of records,
\* checkpoint records included, total_time equal to the sum of the durations
\* of all records, and the records in their order with their names and
\* metadata, duration_seconds being the duration rounded to 3 decimals (a
\* whole number of milliseconds nearest to it).
C13_ExportMatchesRecords ==
    last.op = "export_json" =>
        LET data == last.written IN
        /\ data.num_operations = Len(records)
        /\ data.total_time = SumOver(records, 1..Len(records))
        /\ Len(data.records) = Len(records)
        /\ \A i \in 1..Len(records) :
              /\ data.records[i].name = records[i].name
              /\ data.records[i].metadata = records[i].metadata
              /\ LET ms == data.records[i].duration_seconds.millis
                     d == records[i].duration
                 IN  /\ 2 * (ms * TicksPerMilli - d) <= TicksPerMilli
                     /\ 2 * (d - ms * TicksPerMilli) <= TicksPerMilli

C13_Witness ==
    /\ last.op = "export_json"
    /\ Len(records) = 3
    /\ HasMarker(records[2].name)
    /\ records[1].metadata # <<>> /\ records[1].duration = 2
    /\ records[3].duration = 1
    /\ last.written.records[1].duration_seconds.millis = 1
    /\ last.written.records[3].duration_seconds.millis = 0
    /\ last.written.total_time = 3
    /\ last.written.num_operations = 3

----------------------------------------------------------------------------
(* Properties of the record list *)

\* C14: the record list is append-only: every step of the recorder (scope
\* entry, scope exit, checkpoint, get_stats, print_summary, export_json,
\* setting the flag) leaves the previous record list as a prefix of the new one.
C14_AppendOnly ==
    [][/\ Len(records') >= Len(records)
       /\ SubSeq(records', 1, Len(records)) = records]_vars

C14_Witness ==
    /\ last.op = "export_json"
    /\ ~enabled
    /\ Len(records) = 3
    /\ last.written.num_operations = 3
    /\ HasMarker(records[2].name)

----------------------------------------------------------------------------
(* Properties of the module-level recorder *)

FreeCalls == {"get_profiler", "enter", "checkpoint", "print_summary", "export_json"}

\* C15: while _global_profiler is None, a call of get_profiler(), time_block(),
\* checkpoint(), print_summary() or export_json() creates the first recorder,
\* enabled and holding nothing but what that call itself adds; once a recorder
\* exists, no step but enable_profiling() makes another one the global
\* recorder, and a scope is entered on the global recorder; no free function
\* fails for lack of an instance.
C15_LazySingleton ==
    [][/\ (global_profiler = 0 /\ last'.op \in FreeCalls) =>
             /\ global_profiler' = 1
             /\ enabled'
             /\ retired' = <<>>
             /\ Len(records') <= 1 /\ (records' # <<>> => last'.op = "checkpoint")
             /\ Len(stack') <= 1 /\ (stack' # <<>> => last'.op = "enter")
       /\ (global_profiler # 0 /\ (last' = last \/ last'.op # "enable_profiling")) =>
             global_profiler' = global_profiler
       /\ \A c \in Contexts :
             Len(frames'[c]) > Len(frames[c]) => Last(frames'[c]).inst = global_profiler'
       /\ last'.op \in FreeCalls => last'.kind = "return"
      ]_vars

C15_Witness ==
    /\ last.op = "export_json"
    /\ last.written.num_operations = 1
    /\ global_profiler = 1
    /\ globally_off /\ enabled
    /\ entered.on = 1

\* C16: enable_profiling() makes a recorder that has not been the global one
\* before the global recorder, enabled, with no records and an empty stack,
\* whatever the state before; disable_profiling() with a global recorder in
\* place sets its flag to false and changes neither which recorder is global
\* nor its records nor its stack.
C16_EnableReplacesDisableFlags ==
    [][\A c \in Contexts :
          /\ EnableProfiling(c) =>
                /\ global_profiler' > global_profiler
                /\ Len(retired') = global_profiler
                /\ enabled'
                /\ records' = <<>>
                /\ stack' = <<>>
          /\ (DisableProfiling(c) /\ global_profiler # 0) =>
                /\ ~enabled'
                /\ global_profiler' = global_profiler
                /\ records' = records
                /\ stack' = stack
      ]_vars

C16_Witness ==
    /\ last.op = "enable_profiling"
    /\ last.replaced = 1
    /\ Len(retired) = 1
    /\ Len(retired[1].records) = 2 /\ retired[1].stack # <<>> /\ ~retired[1].enabled
    /\ enabled /\ records = <<>> /\ stack = <<>>

\* C17: once disable_profiling() has returned, and until enable_profiling()
\* is called, no scope entered through time_block() is recorded and no
\* checkpoint() through the free functions adds a record, whether or not a
\* global recorder existed when disable_profiling() was called.
C17_DisabledUntilEnabled ==
    [][globally_off =>
          /\ \A c \in Contexts :
                Len(frames'[c]) > Len(frames[c]) => ~Last(frames'[c]).on
          /\ \A c \in Contexts, n \in CheckpointNames, m \in CheckpointMetas :
                FreeCheckpoint(c, n, m) => Len(records') <= Len(records)
      ]_vars

----------------------------------------------------------------------------
(* Properties of tracked calls and of the stack *)

\* C18: a tracked call ends for its caller as the function itself ended (same
\* result, same exception); on an enabled recorder it appends exactly one
\* record, named by the scopes open at the call followed by the function's own
\* name and with empty metadata, and leaves the stack as it found it, so that
\* a recursion of depth 3 of the function C yields the records C > C > C,
\* C > C and C.
C18_TrackedCall ==
    (last.op = "exit" /\ last.scope.tracked) =>
        /\ last.kind = last.block.kind
        /\ last.val = last.block.val
        /\ last.scope.name = <<"C">>
        /\ last.scope.metadata = <<>>
        /\ IF last.scope.on
           THEN /\ records # <<>>
                /\ Last(records).name
                      = Qualified(Names(frames[last.ctx]) \o <<last.scope.name>>)
                /\ Last(records).metadata = <<>>
                /\ Cardinality({i \in 1..Len(origin) :
                                   origin[i].op = "time" /\ origin[i].id = last.scope.id}) = 1
                /\ Last(origin).id = last.scope.id
                /\ Len(stack) = last.scope.depth0
                /\ stack = Names(frames[last.ctx])
           ELSE records = <<>> /\ stack = <<>>

C18_Witness ==
    /\ last.op = "exit" /\ last.scope.tracked /\ last.scope.on
    /\ last.kind = "return" /\ last.val = "r1"
    /\ frames[last.ctx] = <<>> /\ stack = <<>>
    /\ Len(records) = 3
    /\ records[1].name = <<"C", " ", ">", " ", "C", " ", ">", " ", "C">>
    /\ records[2].name = <<"C", " ", ">", " ", "C">>
    /\ records[3].name = <<"C">>

\* C19: on an enabled recorder used from one context, the stack is in every
\* state the sequence of the names of the open scopes, outermost first: it
\* holds no name of a scope that has exited and misses no open scope.
C19_StackIsOpenScopes ==
    enabled =>
        /\ \A c \in Contexts \ {Main} : frames[c] = <<>>
        /\ Len(stack) = Len(frames[Main])
        /\ \A i \in 1..Len(stack) : stack[i] = frames[Main][i].name
        /\ \A i \in 1..Len(stack) :
              /\ frames[Main][i].id \notin {origin[j].id : j \in 1..Len(origin)}
              /\ \A j \in 1..Len(stack) : i < j => frames[Main][i].id < frames[Main][j].id

C19_Witness ==
    /\ enabled
    /\ last.op = "exit" /\ last.scope.name = <<"B">>
    /\ Len(frames[Main]) = 2
    /\ stack = <<<<"A">>, <<"C">>>>
    /\ Len(records) = 1

----------------------------------------------------------------------------
(* Properties of a recorder shared by two contexts *)

\* C20: on a recorder shared by two contexts, a scope entered on the enabled
\* recorder is named by the names the shared stack holds at that moment
\* followed by its own, so its name is the chain of the scopes that enclose it
\* exactly when the stack holds the names of these scopes and no others; the
\* witness is the state the claim describes, in which it does not: the stack
\* holds the name of a scope that has exited, the name of an open scope has
\* been popped, and the scope entered then is not named by its enclosing scopes.
C20_NameFollowsSharedStack ==
    (last.op = "enter" /\ Last(frames[last.ctx]).on) =>
        LET f == Last(frames[last.ctx])
            chain == Names(frames[last.ctx])
        IN  /\ stack # <<>> /\ Last(stack) = f.name
            /\ f.full_name = Qualified(Front(stack) \o <<f.name>>)
            /\ f.full_name = Qualified(chain) <=> Front(stack) = Front(chain)

C20_Witness ==
    /\ last.op = "enter" /\ last.ctx # Main
    /\ frames[Main] = <<>>
    /\ Len(records) = 1 /\ records[1].name = <<"A">>
    /\ Names(frames[last.ctx]) = <<<<"B">>, <<"C">>>>
    /\ stack = <<<<"A">>, <<"C">>>>
    /\ Last(frames[last.ctx]).full_name = <<"A", " ", ">", " ", "C">>

\* the number of open scopes that were entered while the recorder was enabled
RECURSIVE OpenOn(_)
OpenOn(C) ==
    IF C = {} THEN 0
    ELSE LET c == CHOOSE x \in C : TRUE
         IN  Len(OnScopes(frames[c])) + OpenOn(C \ {c})

\* C21: whatever the interleaving of the contexts and whenever the flag is
\* assigned, the stack is as long as the number of open scopes that were
\* entered while the recorder was enabled; no exit fails by popping an empty
\* stack; the scopes entered while enabled are those that are open or have a
\* record, so when every scope has exited the stack is empty and there are as
\* many timed records as scopes entered while enabled.
C21_StackLengthUnderInterleaving ==
    /\ Len(stack) = OpenOn(Contexts)
    /\ last.op = "exit" =>
          /\ last.kind = last.block.kind /\ last.val = last.block.val
          /\ IF last.scope.on
             THEN records # <<>> /\ Last(origin).id = last.scope.id
             ELSE \A i \in 1..Len(origin) : origin[i].id # last.scope.id
    /\ \A c \in Contexts : pending[c] # "IndexError"
    /\ Cardinality(Timed) + OpenOn(Contexts) = entered.on
    /\ (\A c \in Contexts : frames[c] = <<>>) =>
          (stack = <<>> /\ Cardinality(Timed) = entered.on)

C21_Witness ==
    /\ \A c \in Contexts : frames[c] = <<>>
    /\ entered.on = 2 /\ entered.off = 1
    /\ Len(records) = 2 /\ stack = <<>>
    /\ last.op = "exit" /\ last.ctx # Main /\ last.scope.on /\ ~last.flag
    /\ origin[1].id = 1 /\ origin[2].id = 2

----------------------------------------------------------------------------
(* Properties of the order of the records *)

\* C22: on a recorder used from one context, the end_time values of the
\* records never decrease along the record list, the records of scopes and
\* those of checkpoints together.
C22_EndTimesNondecreasing ==
    \A i, j \in 1..Len(records) :
        i < j => records[i].end_time <= records[j].end_time

C22_Witness ==
    /\ Len(records) = 3
    /\ origin[1].op = "time" /\ records[1].end_time = 0
    /\ origin[2].op = "checkpoint" /\ records[2].start_time = 0 /\ records[2].end_time = 1
    /\ origin[3].op = "time" /\ records[3].start_time = 0 /\ records[3].end_time = 1
    /\ origin[1].enclosing = <<origin[3].id>>

----------------------------------------------------------------------------
(* Properties of the summary table *)

\* the top-level names among the records whose name does not hold the marker
TopLevelNames(recs) == {FirstSegment(recs[i].name) : i \in Counted(recs)}

\* C23: for top_n >= 0, print_summary(top_n) on a record list that is not
\* empty shows min(top_n, number of groups) rows, one per group, in descending
\* order of total and leaving out no group with a larger total than a group
\* shown; each row has the group's total, its count, avg = total / count and
\* pct = total / grand total * 100 (0 when the grand total is 0), the grand
\* total being the sum of the durations of the records whose name does not
\* hold the marker; on an empty record list it reports no data and nothing else.
C23_SummaryTable ==
    (last.op = "print_summary" /\ last.top_n >= 0) =>
        LET rows == last.printed.rows
            groups == TopLevelNames(records)
            grand == SumOver(records, Counted(records))
        IN  IF records = <<>>
            THEN /\ last.printed.no_data
                 /\ rows = <<>>
                 /\ last.printed.slowest = <<>>
                 /\ last.printed.checkpoints = <<>>
            ELSE /\ ~last.printed.no_data
                 /\ last.printed.total_time = grand
                 /\ Len(rows) = IF last.top_n < Cardinality(groups)
                                THEN last.top_n ELSE Cardinality(groups)
                 /\ \A k \in 1..Len(rows) :
                       LET g == Group(records, rows[k].op_name) IN
                       /\ rows[k].op_name \in groups
                       /\ rows[k].total = SumOver(records, g)
                       /\ rows[k].count = Cardinality(g)
                       /\ rows[k].avg.den > 0
                       /\ rows[k].avg.num * rows[k].count = rows[k].total * rows[k].avg.den
                       /\ rows[k].pct.den > 0
                       /\ IF grand = 0 THEN rows[k].pct.num = 0
                          ELSE rows[k].pct.num * grand = rows[k].total * 100 * rows[k].pct.den
                 /\ \A j, k \in 1..Len(rows) :
                       /\ j < k => rows[j].total >= rows[k].total
                       /\ rows[j].op_name = rows[k].op_name => j = k
                 /\ \A top \in groups :
                       (\A k \in 1..Len(rows) : rows[k].op_name # top) =>
                          \A k \in 1..Len(rows) :
                             rows[k].total >= SumOver(records, Group(records, top))

C23_Witness ==
    /\ last.op = "print_summary" /\ last.top_n = 2
    /\ Len(records) = 3
    /\ records[1].name = <<"o", "p">> /\ records[1].duration = 1
    /\ records[2].name = <<"p", "a", "r", "s", "e">> /\ records[2].duration = 2
    /\ records[3].name = NestedName /\ records[3].duration = 3
    /\ Len(last.printed.rows) = 2
    /\ last.printed.rows[1].op_name = <<"f", "e", "t", "c", "h">>
    /\ last.printed.rows[1].pct = [num |-> 50, den |-> 1]
    /\ last.printed.rows[2].op_name = <<"p", "a", "r", "s", "e">>

----------------------------------------------------------------------------
(* Properties of scopes that outlive the recorder they were entered on *)

\* the open scopes of context c that were entered on instance k while it was
\* enabled
OpenOnInstance(c, k) == SelectSeq(frames[c], LAMBDA f : f.on /\ f.inst = k)

\* C24: a scope entered through time_block() and exited after
\* enable_profiling() has replaced the global recorder completes on the
\* instance it was entered on: its record is appended to that instance and to
\* no other, and the stack of every instance, the new global one included, is
\* as long as the number of open scopes entered on it; a scope entered after
\* the replacement is named by the open scopes of the new instance only.
C24_ExitOnOwnInstance ==
    /\ global_profiler # 0 => Len(stack) = Len(OpenOnInstance(Main, global_profiler))
    /\ \A k \in 1..Len(retired) : Len(retired[k].stack) = Len(OpenOnInstance(Main, k))
    /\ (last.op = "exit" /\ last.scope.on /\ last.scope.inst # global_profiler) =>
          LET old == retired[last.scope.inst] IN
          /\ last.kind = last.block.kind /\ last.val = last.block.val
          /\ old.records # <<>>
          /\ Last(old.records).name = last.scope.full_name
          /\ Last(old.origin).id = last.scope.id
          /\ \A i \in 1..Len(origin) : origin[i].id # last.scope.id
    /\ (last.op = "enter" /\ last.kind = "return" /\ Last(frames[last.ctx]).on) =>
          LET f == Last(frames[last.ctx]) IN
          /\ f.inst = global_profiler
          /\ f.full_name = Qualified(Names(OpenOnInstance(last.ctx, global_profiler)))

C24_Witness ==
    /\ last.op = "exit" /\ last.scope.on /\ last.scope.inst = 1
    /\ global_profiler = 2
    /\ Len(retired[1].records) = 1 /\ retired[1].stack = <<>>
    /\ Len(records) = 1 /\ records[1].name = <<"A">>
    /\ origin[1].enclosing = <<last.scope.id>>
    /\ stack = <<>> /\ frames[last.ctx] = <<>>

----------------------------------------------------------------------------
(* Properties of the reading operations *)

\* C25: get_stats(), print_summary() and export_json() leave the record list,
\* the stack and the flag as they are, in every state (enabled or disabled,
\* with or without open scopes), and what they report is taken from all the
\* records collected so far, also when the recorder is disabled.
C25_ReadersChangeNothing ==
    [][\A c \in Contexts :
          /\ (last'.op = "get_stats" /\ CallGetStats(c)) =>
                /\ records' = records /\ stack' = stack /\ enabled' = enabled
                /\ DOMAIN last'.val = TopLevelNames(records)
                /\ \A top \in DOMAIN last'.val :
                      last'.val[top].count = Cardinality(Group(records, top))
          /\ \A top_n \in TopNs :
                (last'.op = "print_summary" /\ CallPrintSummary(c, top_n)) =>
                   /\ records' = records /\ stack' = stack /\ enabled' = enabled
                   /\ last'.printed.no_data <=> records = <<>>
                   /\ last'.printed.total_time = SumOver(records, Counted(records))
                   /\ Len(last'.printed.checkpoints) + Cardinality(Counted(records))
                         = Len(records)
          /\ \A filepath \in Paths :
                (last'.op = "export_json" /\ CallExportJson(c, filepath)) =>
                   /\ records' = records /\ stack' = stack /\ enabled' = enabled
                   /\ last'.written.num_operations = Len(records)
                   /\ \A i \in 1..Len(records) :
                         last'.written.records[i].name = records[i].name
      ]_vars

C25_Witness ==
    /\ ~enabled
    /\ last.op = "print_summary"
    /\ Len(records) = 2 /\ NumCheckpointRecords = 1
    /\ stack # <<>>
    /\ Len(last.printed.rows) = 1 /\ Len(last.printed.checkpoints) = 1

----------------------------------------------------------------------------
(* Properties of the analysis tool *)

\* the durations of all records are whole numbers of milliseconds
ExactToMillis(recs) == \A i \in 1..Len(recs) : recs[i].duration % TicksPerMilli = 0

\* the number of ticks that m milliseconds are
Ticks(m) == m * TicksPerMilli

\* C26: when every duration of the record list is exact to 3 decimals,
\* analyze_bottlenecks on the export of the list has the groups of get_stats()
\* on the list, each with the same total, count, avg, min and max, and with a
\* median that is the duration of a record of the group.
C26_AnalysisAgreesWithStats ==
    (last.op = "analyze_bottlenecks" /\ ExactToMillis(records)) =>
       LET analysis == last.val
           stats == GetStats(records)
       IN  /\ DOMAIN analysis = DOMAIN stats
           /\ DOMAIN analysis = TopLevelNames(records)
           /\ \A op \in DOMAIN analysis :
                 /\ Ticks(analysis[op].total) = stats[op].total
                 /\ analysis[op].count = stats[op].count
                 /\ Ticks(analysis[op].avg.num) * stats[op].avg.den
                       = stats[op].avg.num * analysis[op].avg.den
                 /\ Ticks(analysis[op].min) = stats[op].min
                 /\ Ticks(analysis[op].max) = stats[op].max
                 /\ \E i \in Group(records, op) :
                       records[i].duration = Ticks(analysis[op].median)

C26_Witness ==
    /\ last.op = "analyze_bottlenecks"
    /\ ExactToMillis(records)
    /\ Len(records) = 3
    /\ records[1].name = NameFetch \o SEP \o NameParse \o SEP \o NameJson
    /\ records[2].name = CheckpointPrefix \o NameX
    /\ records[3].name = NameFetch \o SEP \o NameParse \o SEP \o NameJson
    /\ records[1].duration = TicksPerMilli /\ records[3].duration = 0
    /\ DOMAIN last.val = {NameFetch}
    /\ last.val[NameFetch].total = 1 /\ last.val[NameFetch].count = 2
    /\ last.val[NameFetch].median = 1

====
